---- MODULE Spec2Model ----
(***************************************************************************)
(* Blossom (src/main.py): a Streamlit session holding a user profile, a    *)
(* symptom log and a chat transcript.  Every user interaction runs main()  *)
(* once; an action below is one such pass.                                 *)
(***************************************************************************)
EXTENDS Integers, Sequences, FiniteSets, TLC

VARIABLES today, user_data, cycle_day, messages, llm, uncaught, call, ret

vars == <<today, user_data, cycle_day, messages, llm, uncaught, call, ret>>

(* ---------------------------- bounds ----------------------------------- *)
\* midnights that pass during the session
MaxDay == 1
\* the last period is at most this many days before today
MaxBack == 10
\* ... or this many days after today
MaxAhead == 1
\* symptom entries logged in the session
MaxLog == 3
\* transcript length
MaxMsgs == 3
\* words in a chat message (keyword harness)
MaxWords == 2
\* log length handed to identify_patterns (harness)
MaxPatternLog == 3
\* |today - last_period_date| in the cycle-day harness
MaxSpan == 41
\* largest cycle day handed to get_phase_info (harness)
MaxPhaseDay == 42

(* ------------------------ program constants ---------------------------- *)
MinCycleLength == 21
MaxCycleLength == 40
DefaultCycleLength == 28
DefaultAge == 30
MenstrualEnd == 5
OvulatoryLength == 3
MinIntensity == 1
MaxIntensity == 5
PatternMinEntries == 3
HighIntensity == 3
InsightEvery == 3

(* Python's None and a present value *)
None == <<>>
Some(x) == <<x>>

(* x or default, for an optional integer: None and 0 are falsy *)
OrDefault(x, default) == IF x = None \/ x[1] = 0 THEN default ELSE x[1]

(* f-string rendering of an optional integer *)
Str(x) == IF x = None THEN "None" ELSE ToString(x[1])

(* a % b rounded toward zero, as C computes it *)
TruncMod(a, b) == IF a >= 0 THEN a % b ELSE 0 - ((0 - a) % b)

(* Python's int % for a positive divisor: the floored modulo, in 0..b-1 *)
PyMod(a, b) == a % b

(* calculate_cycle_day that forgets the 1-based shift *)
calculate_cycle_day_zero_based(now, last_period_date, cycle_length) ==
    IF last_period_date # None
    THEN Some(PyMod(now - last_period_date[1], OrDefault(cycle_length, DefaultCycleLength)))
    ELSE None

calculate_cycle_day(now, last_period_date, cycle_length) ==
    IF last_period_date # None
    THEN LET days_since == now - last_period_date[1]
             length == OrDefault(cycle_length, DefaultCycleLength)
         IN  Some(PyMod(days_since, length) + 1)
    ELSE None

(* get_phase_info with the boundary day of the follicular phase excluded *)
get_phase_info_strict(cd, cycle_length) ==
    IF cd = None THEN "Unknown"
    ELSE LET follicular_phase == cycle_length \div 2
             ovulatory_phase == follicular_phase + OvulatoryLength
             d == cd[1]
         IN  IF 1 <= d /\ d <= MenstrualEnd THEN "Menstrual Phase"
             ELSE IF MenstrualEnd + 1 <= d /\ d < follicular_phase THEN "Follicular Phase"
             ELSE IF follicular_phase <= d /\ d <= ovulatory_phase THEN "Ovulatory Phase"
             ELSE "Luteal Phase"

(* int(cycle_length * 0.5) is the floor of half a non-negative integer *)
get_phase_info(cd, cycle_length) ==
    IF cd = None THEN "Unknown"
    ELSE LET follicular_phase == cycle_length \div 2
             ovulatory_phase == follicular_phase + OvulatoryLength
             d == cd[1]
         IN  IF 1 <= d /\ d <= MenstrualEnd THEN "Menstrual Phase"
             ELSE IF MenstrualEnd + 1 <= d /\ d <= follicular_phase THEN "Follicular Phase"
             ELSE IF follicular_phase < d /\ d <= ovulatory_phase THEN "Ovulatory Phase"
             ELSE "Luteal Phase"

(* the entry log_symptom builds: get_phase_info is called without a cycle  *)
(* length, so its default of 28 applies                                    *)
SymptomEntry(now, cd, symptom, intensity, notes) ==
    [date |-> ToString(now), cycle_day |-> cd,
     phase |-> get_phase_info(cd, DefaultCycleLength),
     symptom |-> symptom, intensity |-> intensity, notes |-> notes]

(* a log that keeps only the newest entry *)
ReplaceEntry(log, entry) == <<entry>>

(* list.append *)
AppendEntry(log, entry) == Append(log, entry)

(* ------------------------- identify_patterns --------------------------- *)
NotEnoughData == <<"Not enough data to identify patterns yet.">>
StillAnalyzing == <<"Still analyzing your patterns. Keep logging your symptoms!">>

(* the group keys in the order pandas' groupby (sort=True) lists them *)
SortedPhases ==
    <<"Follicular Phase", "Luteal Phase", "Menstrual Phase", "Ovulatory Phase", "Unknown">>
SortedSymptoms ==
    <<"Acne", "Anxiety", "Bloating", "Cramps", "Cravings", "Fatigue", "Headache",
      "Mood swings", "Other">>

SortedPhasesSet == {SortedPhases[i] : i \in 1..Len(SortedPhases)}
SortedSymptomsSet == {SortedSymptoms[i] : i \in 1..Len(SortedSymptoms)}

Rank(sorted, x) == CHOOSE i \in 1..Len(sorted) : sorted[i] = x

(* key order of the grouped frame: by phase, then by symptom *)
KeyBefore(g, h) ==
    \/ Rank(SortedPhases, g[1]) < Rank(SortedPhases, h[1])
    \/ /\ g[1] = h[1]
       /\ Rank(SortedSymptoms, g[2]) <= Rank(SortedSymptoms, h[2])

RECURSIVE SumIntensity(_, _)
SumIntensity(log, idx) ==
    IF idx = {} THEN 0
    ELSE LET i == CHOOSE j \in idx : TRUE
         IN  log[i].intensity + SumIntensity(log, idx \ {i})

(* groupby(["phase","symptom"])["intensity"].mean(): the mean of each group *)
(* as the exact fraction <<sum, count>>                                     *)
GroupKeys(log) == {<<log[i].phase, log[i].symptom>> : i \in 1..Len(log)}
GroupRows(log, g) == {i \in 1..Len(log) : <<log[i].phase, log[i].symptom>> = g}
GroupMean(log, g) == <<SumIntensity(log, GroupRows(log, g)), Cardinality(GroupRows(log, g))>>

(* mean > t, mean >= t on the exact fraction *)
MeanAbove(mean, t) == mean[1] > t * mean[2]
MeanAtLeast(mean, t) == mean[1] >= t * mean[2]

PatternSentence(g) ==
    <<"You tend to experience higher intensity ", g[2], " during your ", g[1], ".">>

(* identify_patterns that accepts a group whose mean equals the threshold *)
identify_patterns_inclusive(log) ==
    IF Len(log) < PatternMinEntries THEN NotEnoughData
    ELSE LET high == {g \in GroupKeys(log) : MeanAtLeast(GroupMean(log, g), HighIntensity)}
         IN  IF high # {}
             THEN PatternSentence(CHOOSE g \in high : \A h \in high : KeyBefore(g, h))
             ELSE StillAnalyzing

(* identify_patterns that starts analysing one entry too early *)
identify_patterns_early(log) ==
    IF Len(log) < PatternMinEntries - 1 THEN NotEnoughData
    ELSE LET high == {g \in GroupKeys(log) : MeanAbove(GroupMean(log, g), HighIntensity)}
         IN  IF high # {}
             THEN PatternSentence(CHOOSE g \in high : \A h \in high : KeyBefore(g, h))
             ELSE StillAnalyzing

identify_patterns(log) ==
    IF Len(log) < PatternMinEntries THEN NotEnoughData
    ELSE LET high_intensity ==
                 {g \in GroupKeys(log) : MeanAbove(GroupMean(log, g), HighIntensity)}
         IN  IF high_intensity # {}
             THEN PatternSentence(CHOOSE g \in high_intensity :
                                      \A h \in high_intensity : KeyBefore(g, h))
             ELSE StillAnalyzing

(* ------------------------------ chat ----------------------------------- *)
(* text is a tuple of one-character strings, so that "in" is a substring test *)
Contains(text, word) ==
    \E i \in 1..(Len(text) - Len(word) + 1) : SubSeq(text, i, i + Len(word) - 1) = word

KwTired == <<"t", "i", "r", "e", "d">>
KwExhausted == <<"e", "x", "h", "a", "u", "s", "t", "e", "d">>
KwFatigue == <<"f", "a", "t", "i", "g", "u", "e">>
KwAnxious == <<"a", "n", "x", "i", "o", "u", "s">>
KwAnxiety == <<"a", "n", "x", "i", "e", "t", "y">>
KwWorried == <<"w", "o", "r", "r", "i", "e", "d">>
KwCramps == <<"c", "r", "a", "m", "p", "s">>
KwPain == <<"p", "a", "i", "n">>

FatigueResponse == <<"Fatigue can be common, especially during your luteal phase. Would you like some energy-boosting tips that align with your current cycle phase?">>
AnxietyResponse == <<"I notice you're feeling anxious. This is common during hormonal fluctuations. Deep breathing or a short walk might help regulate your nervous system.">>
PainResponse == <<"I'm sorry you're experiencing pain. A warm compress and anti-inflammatory foods might provide some relief. Would you like more specific suggestions?">>

(* the four canned sentences; the first interpolates the session's cycle day *)
responses(cd) ==
    << <<"I understand how challenging hormonal symptoms can be. Based on your cycle day (",
         Str(cd), "), this is normal. How can I support you today?">>,
       <<"Thank you for sharing how you're feeling. Would you like some suggestions for managing these symptoms?">>,
       <<"I'm here to listen and help. Have you noticed any patterns with these symptoms?">>,
       <<"That sounds difficult. Many women experience similar challenges. Would gentle movement or stress reduction techniques help right now?">> >>

(* the fallback with the anxiety keywords tested before the fatigue keywords *)
FallbackAnxietyFirst(prompt, cd, choice) ==
    IF Contains(prompt, KwAnxious) \/ Contains(prompt, KwAnxiety) \/ Contains(prompt, KwWorried)
    THEN AnxietyResponse
    ELSE IF Contains(prompt, KwTired) \/ Contains(prompt, KwExhausted) \/ Contains(prompt, KwFatigue)
    THEN FatigueResponse
    ELSE IF Contains(prompt, KwCramps) \/ Contains(prompt, KwPain)
    THEN PainResponse
    ELSE responses(cd)[choice]

(* the else branch of render_chat_interface; choice is random.choice's draw *)
FallbackResponse(prompt, cd, choice) ==
    IF Contains(prompt, KwTired) \/ Contains(prompt, KwExhausted) \/ Contains(prompt, KwFatigue)
    THEN FatigueResponse
    ELSE IF Contains(prompt, KwAnxious) \/ Contains(prompt, KwAnxiety) \/ Contains(prompt, KwWorried)
    THEN AnxietyResponse
    ELSE IF Contains(prompt, KwCramps) \/ Contains(prompt, KwPain)
    THEN PainResponse
    ELSE responses(cd)[choice]

(* setup_llm: the chain, or None when building it raised *)
setup_llm(outcome) == IF outcome = "setup_raises" THEN None ELSE Some("chain")

WelcomeMessage(name) ==
    [role |-> "assistant",
     content |-> <<"Hi ", name, "! I'm Bloom, your hormonal wellness companion. How are you feeling today?">>]

(* generate_insight's pool *)
insights ==
    <<"Your mood symptoms seem to intensify during the luteal phase. Magnesium-rich foods like dark chocolate might help.",
      "I notice your energy levels drop during menstruation. Gentle movement like walking or stretching could help maintain energy.",
      "Your bloating symptoms appear consistently before your period. Reducing salt intake and increasing water might help.",
      "You've reported headaches in your follicular phase. Ensuring adequate hydration may help reduce their frequency.",
      "Your sleep quality decreases before menstruation. A consistent bedtime routine might be beneficial.">>

InsightMessage(i) ==
    [role |-> "assistant", content |-> <<"**Blossom Insight**: ", insights[i]>>]

(* ------------------------- inputs of the model ------------------------- *)
Names == {"Ana"}
Ages == {DefaultAge}
CycleLengths == MinCycleLength..MaxCycleLength
SessionCycleLengths == {MinCycleLength, DefaultCycleLength, MaxCycleLength}
LastPeriodDates(now) == (now - MaxBack)..(now + MaxAhead)
Intensities == MinIntensity..MaxIntensity
SessionSymptoms == {"Fatigue"}
SessionIntensities == {MaxIntensity}
SessionNotes == {""}
LLMOutcomes == {"setup_raises", "predict_returns", "predict_raises"}
LLMReplies == {<<"(the model's reply)">>}

Space == <<" ">>
WordHello == <<"h", "e", "l", "l", "o">>
WordTiredCap == <<"T", "i", "r", "e", "d">>
WordPainful == <<"p", "a", "i", "n", "f", "u", "l">>
Vocabulary ==
    {KwTired, KwExhausted, KwFatigue, KwAnxious, KwAnxiety, KwWorried, KwCramps, KwPain,
     WordHello, WordTiredCap, WordPainful}

RECURSIVE Join(_)
Join(words) ==
    IF Len(words) = 0 THEN <<>>
    ELSE IF Len(words) = 1 THEN words[1]
    ELSE words[1] \o Space \o Join(Tail(words))

Prompts(n) == {Join(w) : w \in UNION {[1..k -> Vocabulary] : k \in 1..n}}
SessionPrompts == {Join(<<KwTired, KwAnxious>>), WordHello}

(* ------------------------------ session -------------------------------- *)
NoCall == [fn |-> "none"]

(* module level of main.py: the first run's session state *)
InitSession ==
    /\ today = 0
    /\ messages = <<>>
    /\ user_data = [name |-> "", age |-> None, cycle_length |-> None,
                    last_period_date |-> None, symptoms_log |-> <<>>,
                    onboarding_complete |-> FALSE]
    /\ cycle_day = None
    /\ llm = "unused"
    /\ uncaught = FALSE

Init == InitSession /\ call = NoCall /\ ret = None

CurrentCycleDay(ud) == calculate_cycle_day(today, ud.last_period_date, ud.cycle_length)

(* main -> render_onboarding with "Complete Profile" pressed *)
Onboard(name, age, cycle_length, last_period) ==
    /\ ~user_data.onboarding_complete
    /\ user_data' = [user_data EXCEPT !.name = name, !.age = Some(age),
                                      !.cycle_length = Some(cycle_length),
                                      !.last_period_date = Some(last_period),
                                      !.onboarding_complete = TRUE]
    /\ cycle_day' = CurrentCycleDay(user_data')
    /\ messages' = Append(messages, WelcomeMessage(name))
    /\ llm' = "unused"
    /\ uncaught' = FALSE
    /\ UNCHANGED <<today, call, ret>>

(* main -> render_dashboard -> render_symptom_tracker with "Log Symptom"   *)
(* pressed; insight is generate_insight's draw                             *)
LogSymptom(symptom, intensity, notes, insight) ==
    /\ user_data.onboarding_complete
    /\ Len(user_data.symptoms_log) < MaxLog
    /\ LET cd == CurrentCycleDay(user_data)
           log == AppendEntry(user_data.symptoms_log,
                              SymptomEntry(today, cd, symptom, intensity, notes))
       IN  /\ cycle_day' = cd
           /\ user_data' = [user_data EXCEPT !.symptoms_log = log]
           /\ messages' = IF Len(log) % InsightEvery = 0
                          THEN Append(messages, InsightMessage(insight))
                          ELSE messages
    /\ llm' = "unused"
    /\ uncaught' = FALSE
    /\ UNCHANGED <<today, call, ret>>

(* main -> render_chat_interface with a chat message submitted; outcome is *)
(* what the LLM collaborator does, reply its text, choice random.choice's  *)
(* draw among the canned sentences                                         *)
ChatSubmit(prompt, outcome, reply, choice) ==
    /\ user_data.onboarding_complete
    /\ Len(messages) + 2 <= MaxMsgs
    /\ LET cd == CurrentCycleDay(user_data)
           asked == Append(messages, [role |-> "user", content |-> prompt])
           llm_chain == setup_llm(outcome)
       IN  /\ cycle_day' = cd
           /\ IF llm_chain # None
              THEN IF outcome = "predict_raises"
                   THEN /\ messages' = asked
                        /\ uncaught' = TRUE
                   ELSE /\ messages' = Append(asked, [role |-> "assistant", content |-> reply])
                        /\ uncaught' = FALSE
              ELSE /\ messages' = Append(asked, [role |-> "assistant",
                                                 content |-> FallbackResponse(prompt, cd, choice)])
                   /\ uncaught' = FALSE
    /\ llm' = outcome
    /\ UNCHANGED <<today, user_data, call, ret>>

(* main run again by any other widget: only the cycle day is refreshed *)
Rerun ==
    /\ user_data.onboarding_complete
    /\ cycle_day' = CurrentCycleDay(user_data)
    /\ llm' = "unused"
    /\ uncaught' = FALSE
    /\ UNCHANGED <<today, user_data, messages, call, ret>>

(* datetime.now().date() moves on *)
DayPasses ==
    /\ today < MaxDay
    /\ today' = today + 1
    /\ UNCHANGED <<user_data, cycle_day, messages, llm, uncaught, call, ret>>

Next ==
    \/ \E n \in Names, a \in Ages, l \in SessionCycleLengths, p \in LastPeriodDates(today) :
           Onboard(n, a, l, p)
    \/ \E s \in SessionSymptoms, i \in SessionIntensities, n \in SessionNotes,
          k \in DOMAIN insights : LogSymptom(s, i, n, k)
    \/ \E p \in SessionPrompts, o \in LLMOutcomes, r \in LLMReplies,
          c \in DOMAIN responses(None) : ChatSubmit(p, o, r, c)
    \/ Rerun
    \/ DayPasses

Spec == Init /\ [][Next]_vars

(* ------------------- calling the pure functions alone ------------------ *)
(* call holds the arguments, ret is None until the function has returned   *)
(* and Some(result) afterwards                                             *)
OptionalOf(S) == {None} \cup {Some(x) : x \in S}

InitCycleDay ==
    /\ InitSession
    /\ ret = None
    /\ call \in {[fn |-> "calculate_cycle_day", now |-> n, last_period_date |-> l,
                  cycle_length |-> c] :
                     n \in 0..MaxDay,
                     l \in OptionalOf((0 - MaxSpan)..MaxSpan),
                     c \in OptionalOf(1..MaxCycleLength)}

CallCycleDay ==
    /\ call.fn = "calculate_cycle_day"
    /\ ret = None
    /\ ret' = Some(calculate_cycle_day(call.now, call.last_period_date, call.cycle_length))
    /\ UNCHANGED <<today, user_data, cycle_day, messages, llm, uncaught, call>>

SpecCycleDay == InitCycleDay /\ [][CallCycleDay]_vars

InitPhase ==
    /\ InitSession
    /\ ret = None
    /\ call \in {[fn |-> "get_phase_info", cycle_day |-> d, cycle_length |-> l] :
                     d \in OptionalOf(-1..MaxPhaseDay), l \in CycleLengths}

CallPhase ==
    /\ call.fn = "get_phase_info"
    /\ ret = None
    /\ ret' = Some(get_phase_info(call.cycle_day, call.cycle_length))
    /\ UNCHANGED <<today, user_data, cycle_day, messages, llm, uncaught, call>>

SpecPhase == InitPhase /\ [][CallPhase]_vars

(* logs as log_symptom stamps them on a follicular and on a luteal day *)
PatternDays == {10, 25}
PatternSymptoms == {"Mood swings", "Headache"}
PatternEntries ==
    {SymptomEntry(0, Some(d), s, i, "") :
         d \in PatternDays, s \in PatternSymptoms, i \in Intensities}
PatternLogs == UNION {[1..n -> PatternEntries] : n \in 0..MaxPatternLog}

InitPatterns ==
    /\ InitSession
    /\ ret = None
    /\ call \in {[fn |-> "identify_patterns", symptoms_log |-> log] : log \in PatternLogs}

CallPatterns ==
    /\ call.fn = "identify_patterns"
    /\ ret = None
    /\ ret' = Some(identify_patterns(call.symptoms_log))
    /\ UNCHANGED <<today, user_data, cycle_day, messages, llm, uncaught, call>>

SpecPatterns == InitPatterns /\ [][CallPatterns]_vars

FallbackCycleDays == {Some(1), Some(DefaultCycleLength)}

InitFallback ==
    /\ InitSession
    /\ ret = None
    /\ call \in {[fn |-> "fallback", prompt |-> p, cycle_day |-> d] :
                     p \in Prompts(MaxWords), d \in FallbackCycleDays}

CallFallback ==
    /\ call.fn = "fallback"
    /\ ret = None
    /\ \E choice \in DOMAIN responses(None) :
           ret' = Some(FallbackResponse(call.prompt, call.cycle_day, choice))
    /\ UNCHANGED <<today, user_data, cycle_day, messages, llm, uncaught, call>>

SpecFallback == InitFallback /\ [][CallFallback]_vars

(* ------------------------------ claims --------------------------------- *)
Log == user_data.symptoms_log
Returned(fn) == call.fn = fn /\ ret # None

(* C1: every logged entry carries the phase PhaseClassifier gives for its  *)
(* cycle day with the boundaries derived from the profile's cycleLength.   *)
C1_PhaseFromProfileLength ==
    \A i \in 1..Len(Log) :
        Log[i].phase = get_phase_info(Log[i].cycle_day, user_data.cycle_length[1])

(* C2: when the LLM collaborator fails, in setup or while generating, the  *)
(* pass does not die of the failure and the reply is the fallback's.       *)
C2_LLMFailureFallsBack ==
    llm \in {"setup_raises", "predict_raises"} =>
        /\ ~uncaught
        /\ Len(messages) >= 2
        /\ messages[Len(messages)].role = "assistant"
        /\ \E choice \in DOMAIN responses(None) :
               messages[Len(messages)].content =
                   FallbackResponse(messages[Len(messages) - 1].content, cycle_day, choice)

(* C3: for L > 0 and any whole-day difference D, negative ones included,   *)
(* the cycle day is the integer of 1..L congruent to D + 1 modulo L.       *)
C3_CycleDayWraps ==
    (/\ Returned("calculate_cycle_day")
     /\ call.last_period_date # None
     /\ call.cycle_length # None) =>
        LET D == call.now - call.last_period_date[1]
            L == call.cycle_length[1]
            r == ret[1]
        IN  /\ r # None
            /\ r[1] \in 1..L
            /\ \E q \in (0 - (MaxSpan + MaxDay + 1))..(MaxSpan + MaxDay + 1) :
                   D = q * L + (r[1] - 1)

C3_Witness ==
    /\ Returned("calculate_cycle_day")
    /\ call.last_period_date # None
    /\ call.cycle_length = Some(DefaultCycleLength)
    /\ call.now - call.last_period_date[1] = -1
    /\ ret = Some(Some(DefaultCycleLength))

(* floor(L * 0.5), stated without the division the model uses *)
HalfFloor(L) == CHOOSE f \in 0..L : 2 * f <= L /\ L < 2 * f + 2

(* C4: Unknown exactly for an unknown cycle day; otherwise Menstrual on    *)
(* 1..5, Follicular on 6..follicularEnd, Ovulatory on                      *)
(* follicularEnd+1..follicularEnd+3 and Luteal on every other day; for     *)
(* L = 28 day 3 is Menstrual, 14 Follicular, 17 Ovulatory, 25 Luteal.      *)
C4_PhaseBoundaries ==
    Returned("get_phase_info") =>
        LET cd == call.cycle_day
            L == call.cycle_length
            phase == ret[1]
            follicularEnd == HalfFloor(L)
            ovulatoryEnd == follicularEnd + 3
        IN  /\ (phase = "Unknown") <=> (cd = None)
            /\ cd # None =>
                 LET d == cd[1]
                 IN  /\ d \in 1..5 => phase = "Menstrual Phase"
                     /\ d \in 6..follicularEnd => phase = "Follicular Phase"
                     /\ d \in (follicularEnd + 1)..ovulatoryEnd => phase = "Ovulatory Phase"
                     /\ d \notin 1..ovulatoryEnd => phase = "Luteal Phase"
                     /\ (L = 28 /\ d = 3) => phase = "Menstrual Phase"
                     /\ (L = 28 /\ d = 14) => phase = "Follicular Phase"
                     /\ (L = 28 /\ d = 17) => phase = "Ovulatory Phase"
                     /\ (L = 28 /\ d = 25) => phase = "Luteal Phase"

C4_Witness ==
    /\ Returned("get_phase_info")
    /\ call.cycle_length = 28
    /\ call.cycle_day = Some(14)
    /\ ret = Some("Follicular Phase")

LogStep ==
    \E s \in SessionSymptoms, i \in SessionIntensities, n \in SessionNotes,
       k \in DOMAIN insights : LogSymptom(s, i, n, k)

(* C5: the log is append-only: a step keeps every entry in place with all  *)
(* its fields, a logSymptom step adds exactly one entry at the end, and no *)
(* other step changes the log.                                             *)
C5_LogAppendOnly ==
    [][/\ Len(Log') >= Len(Log)
       /\ SubSeq(Log', 1, Len(Log)) = Log
       /\ LogStep => Len(Log') = Len(Log) + 1
       /\ ~LogStep => Log' = Log]_vars

C5_Witness ==
    /\ Len(Log) = MaxLog
    /\ Log[1].date # Log[2].date
    /\ Log[1].cycle_day # cycle_day
    /\ \E i \in 1..Len(messages) : messages[i].role = "user"

(* the groups of a log whose mean intensity is above 3, computed row by row *)
RECURSIVE CountRows(_, _, _)
CountRows(log, g, n) ==
    IF n = 0 THEN 0
    ELSE CountRows(log, g, n - 1)
         + (IF <<log[n].phase, log[n].symptom>> = g THEN 1 ELSE 0)
RECURSIVE TotalRows(_, _, _)
TotalRows(log, g, n) ==
    IF n = 0 THEN 0
    ELSE TotalRows(log, g, n - 1)
         + (IF <<log[n].phase, log[n].symptom>> = g THEN log[n].intensity ELSE 0)
Qualifying(log) ==
    {g \in SortedPhasesSet \X SortedSymptomsSet :
         /\ CountRows(log, g, Len(log)) > 0
         /\ TotalRows(log, g, Len(log)) > 3 * CountRows(log, g, Len(log))}

ClaimExampleLog ==
    <<SymptomEntry(0, Some(25), "Mood swings", 4, ""),
      SymptomEntry(0, Some(25), "Mood swings", 5, ""),
      SymptomEntry(0, Some(10), "Headache", 2, "")>>

(* C6: with at least 3 entries the result names a (phase, symptom) pair    *)
(* iff some group's mean intensity is strictly above 3, the pair named is  *)
(* such a group, and otherwise the result is "still analyzing"; the log    *)
(* (Luteal, Mood, 4), (Luteal, Mood, 5), (Follicular, Headache, 2) yields  *)
(* the Luteal/Mood pair.                                                   *)
C6_PatternIffMeanAboveThree ==
    (Returned("identify_patterns") /\ Len(call.symptoms_log) >= 3) =>
        LET log == call.symptoms_log
            good == Qualifying(log)
        IN  /\ good # {} => \E g \in good : ret[1] = PatternSentence(g)
            /\ good = {} => ret[1] = StillAnalyzing
            /\ log = ClaimExampleLog =>
                   ret[1] = PatternSentence(<<"Luteal Phase", "Mood swings">>)

C6_Witness ==
    /\ Returned("identify_patterns")
    /\ call.symptoms_log = ClaimExampleLog
    /\ ret = Some(PatternSentence(<<"Luteal Phase", "Mood swings">>))

(* C7: on fewer than 3 entries the result is "not enough data", whatever   *)
(* the entries hold.                                                       *)
C7_NotEnoughDataBelowThree ==
    (Returned("identify_patterns") /\ Len(call.symptoms_log) < 3) =>
        ret[1] = NotEnoughData

C7_Witness ==
    /\ Returned("identify_patterns")
    /\ Len(call.symptoms_log) = 2
    /\ \A i \in 1..2 : call.symptoms_log[i].intensity = MaxIntensity
    /\ call.symptoms_log[1].phase = call.symptoms_log[2].phase
    /\ call.symptoms_log[1].symptom = call.symptoms_log[2].symptom
    /\ ret = Some(NotEnoughData)

HasFatigue(p) == Contains(p, KwTired) \/ Contains(p, KwExhausted) \/ Contains(p, KwFatigue)
HasAnxiety(p) == Contains(p, KwAnxious) \/ Contains(p, KwAnxiety) \/ Contains(p, KwWorried)
HasPain(p) == Contains(p, KwCramps) \/ Contains(p, KwPain)

(* C8: the fallback reply is the fatigue response if the message contains  *)
(* a fatigue keyword, else the anxiety response if it contains an anxiety  *)
(* keyword, else the pain response if it contains a pain keyword, else one *)
(* of the four canned sentences; "tired" with "anxious" gives the fatigue  *)
(* response, an anxiety keyword with a pain keyword the anxiety response.  *)
C8_FallbackKeywordPriority ==
    Returned("fallback") =>
        LET p == call.prompt
            reply == ret[1]
        IN  /\ HasFatigue(p) => reply = FatigueResponse
            /\ (~HasFatigue(p) /\ HasAnxiety(p)) => reply = AnxietyResponse
            /\ (~HasFatigue(p) /\ ~HasAnxiety(p) /\ HasPain(p)) => reply = PainResponse
            /\ (~HasFatigue(p) /\ ~HasAnxiety(p) /\ ~HasPain(p)) =>
                   \E c \in 1..4 : reply = responses(call.cycle_day)[c]
            /\ (Contains(p, KwTired) /\ Contains(p, KwAnxious)) => reply = FatigueResponse
            /\ (p = Join(<<KwPain, KwWorried>>)) => reply = AnxietyResponse

C8_Witness ==
    /\ Returned("fallback")
    /\ call.prompt = Join(<<KwAnxious, KwTired>>)
    /\ ret = Some(FatigueResponse)

(* C9: every user message of the transcript is directly followed by an     *)
(* assistant message.                                                      *)
C9_UserFollowedByAssistant ==
    \A i \in 1..Len(messages) :
        messages[i].role = "user" =>
            /\ i < Len(messages)
            /\ messages[i + 1].role = "assistant"

EntriesStamped ==
    /\ Log # <<>> =>
           /\ user_data.onboarding_complete
           /\ user_data.last_period_date # None
           /\ user_data.cycle_length # None
    /\ \A i \in 1..Len(Log) :
           /\ Log[i].cycle_day # None
           /\ Log[i].cycle_day[1] \in 1..user_data.cycle_length[1]
           /\ Log[i].phase # "Unknown"

(* C10: every entry of the log has a known cycle day in 1..cycleLength and *)
(* a phase other than Unknown; entries exist only once onboarding has      *)
(* completed, and onboardingComplete never goes back to false.             *)
C10_EntriesHaveKnownCycleDay ==
    /\ []EntriesStamped
    /\ [][user_data.onboarding_complete => user_data'.onboarding_complete]_vars

C10_Witness ==
    /\ Len(Log) >= 2
    /\ Log[1].cycle_day = user_data.cycle_length
    /\ Log[2].cycle_day = Some(1)

====
